---------------------------- MODULE Spec2Model ----------------------------
(***************************************************************************)
(* Model of the streaming JSON encoder JsonStringifyStream                 *)
(* (src/lib/shared/html-compressed-data-printer.js, lines 51-533).         *)
(*                                                                         *)
(* Text is a sequence of one-character strings; every character is ASCII,  *)
(* so one character is one byte of the staging buffer.  The JavaScript     *)
(* call stack is the variable ctl: a sequence of pending operations, the   *)
(* head being the one that runs next.  Environment events (a consumer      *)
(* pull, a promise continuation, a producer notification, a nextTick       *)
(* callback) start only when ctl is empty, as on a single-threaded event   *)
(* loop.  The one place where the environment acts inside a running        *)
(* handler is super.push(data): the Readable base class may hand the chunk *)
(* to the consumer at once, and the consumer may pull again synchronously. *)
(* Readable does that only when the push does not come from inside a       *)
(* _read call it issued itself (its state.sync flag), modelled by sync.    *)
(***************************************************************************)
EXTENDS Integers, Sequences, FiniteSets, TLC

(***************************************************************************)
(* Bounds of the model.                                                    *)
(***************************************************************************)
\* the consumer stops pulling once this many bytes have been handed to it
MaxOut == 32
\* the largest indentation width drawn for the space argument
MaxSpace == 1
\* how many times the consumer asks for another size than in its previous pull
MaxResizes == 1

(***************************************************************************)
(* Text helpers.                                                           *)
(***************************************************************************)
Min(a, b) == IF a < b THEN a ELSE b

RECURSIVE Repeat(_, _)
\* String.prototype.repeat for n >= 0 (a negative count throws, see CanRepeat)
Repeat(s, n) == IF n <= 0 THEN <<>> ELSE s \o Repeat(s, n - 1)

CanRepeat(n) == n >= 0

Digits == <<"0", "1", "2", "3", "4", "5", "6", "7", "8", "9">>

RECURSIVE IndexKey(_)
\* String(index)
IndexKey(i) ==
    IF i < 10 THEN <<Digits[i + 1]>>
    ELSE IndexKey(i \div 10) \o <<Digits[(i % 10) + 1]>>

\* the key that reading past the end of a key list gives
UndefinedKey == <<"undefined">>

(***************************************************************************)
(* Values.  A value is a record: a primitive, or a reference to a heap     *)
(* node (object, array, promise, readable stream, object with toJSON).     *)
(***************************************************************************)
Undefined == [t |-> "undefined", n |-> 0, s |-> <<>>]
Null      == [t |-> "null", n |-> 0, s |-> <<>>]
Func      == [t |-> "function", n |-> 0, s |-> <<>>]
NaN       == [t |-> "nan", n |-> 0, s |-> <<>>]
Bool(b)   == [t |-> "boolean", n |-> IF b THEN 1 ELSE 0, s |-> <<>>]
Num(k)    == [t |-> "number", n |-> k, s |-> <<>>]
Str(cs)   == [t |-> "string", n |-> 0, s |-> cs]
Ref(id)   == [t |-> "ref", n |-> id, s |-> <<>>]

Node(kind, keys, vals) ==
    [kind |-> kind, keys |-> keys, vals |-> vals, settle |-> "",
     objectMode |-> FALSE, avail |-> <<>>, chunks |-> <<>>,
     flowing |-> FALSE, readableEnded |-> FALSE, fails |-> FALSE]

ObjectNode(keys, vals) == Node("object", keys, vals)
ArrayNode(vals)        == Node("array", <<>>, vals)
ToJsonNode(v)          == Node("tojson", <<>>, <<v>>)
PromiseNode(how, v)    == [Node("promise", <<>>, <<v>>) EXCEPT !.settle = how]
\* a Readable: avail is what it holds buffered when it is attached, chunks what
\* its source delivers afterwards, fails whether the source may report an error
ReadableNode(objMode, avail, chunks, fails) ==
    [Node("readable", <<>>, <<>>) EXCEPT !.objectMode = objMode, !.avail = avail,
                                         !.chunks = chunks, !.fails = fails]

A == <<"a">>
B == <<"b">>

(***************************************************************************)
(* The inputs of the model: one heap holding the nodes of every input, and *)
(* the roots the initial state draws from.                                 *)
(***************************************************************************)
Heap ==
    <<
      \* 1: {"a": 1, "b": [function]}
      ObjectNode(<<A, B>>, <<Num(1), Ref(2)>>),
      \* 2
      ArrayNode(<<Func>>),
      \* 3: [{}, {}] with the same empty object twice
      ArrayNode(<<Ref(4), Ref(4)>>),
      \* 4
      ObjectNode(<<>>, <<>>),
      \* 5: [[1], [1]] with the same array twice
      ArrayNode(<<Ref(6), Ref(6)>>),
      \* 6
      ArrayNode(<<Num(1)>>),
      \* 7: a = [a]
      ArrayNode(<<Ref(7)>>),
      \* 8: {"a": promise of 1, "b": 2}
      ObjectNode(<<A, B>>, <<Ref(9), Num(2)>>),
      \* 9
      PromiseNode("resolve", Num(1)),
      \* 10: o = {"a": promise of o}
      ObjectNode(<<A>>, <<Ref(11)>>),
      \* 11
      PromiseNode("resolve", Ref(10)),
      \* 12: object-mode producer that yields a pending promise and may fail
      ReadableNode(TRUE, <<Ref(9)>>, <<>>, TRUE),
      \* 13: [rejecting promise]
      ArrayNode(<<Ref(14)>>),
      \* 14
      PromiseNode("reject", Undefined),
      \* 15: object-mode producer whose source delivers 1, then 2, then ends
      ReadableNode(TRUE, <<>>, <<Num(1), Num(2)>>, FALSE),
      \* 16: [promise of 1, 2]
      ArrayNode(<<Ref(9), Num(2)>>),
      \* 17: [null, NaN, true, "a", object whose toJSON() gives 1]
      ArrayNode(<<Null, NaN, Bool(TRUE), Str(A), Ref(18)>>),
      \* 18
      ToJsonNode(Num(1)),
      \* 19: text producer that holds "ab" and whose source delivers "c", then ends
      ReadableNode(FALSE, <<"a", "b">>, << <<"c">> >>, FALSE),
      \* 20: record producer that has already ended (readableEnded)
      [ReadableNode(TRUE, <<>>, <<>>, FALSE) EXCEPT !.readableEnded = TRUE],
      \* 21: text producer already in flowing mode (readableFlowing)
      [ReadableNode(FALSE, <<"a">>, <<>>, FALSE) EXCEPT !.flowing = TRUE],
      \* 22
      ArrayNode(<<Ref(21)>>),
      \* 23: every entry is left out: a function and a promise of undefined
      ObjectNode(<<B, A>>, <<Func, Ref(24)>>),
      \* 24
      PromiseNode("resolve", Undefined),
      \* 25: the first entry is left out, and both are with the whitelist
      ObjectNode(<<A, B>>, <<Func, Num(2)>>)
    >>

Roots == {Ref(1), Ref(3), Ref(5), Ref(7), Ref(8), Ref(9), Ref(10), Ref(12),
          Ref(13), Ref(15), Ref(16), Ref(17), Ref(19),
          Ref(20), Ref(22), Ref(23), Ref(25)}

NodeIds == 1..Len(Heap)


(***************************************************************************)
(* Pure functions of the source.                                           *)
(***************************************************************************)
PrimitiveType == 1
PromiseType == 2
ArrayType == 3
ObjectType == 4
ReadableStringType == 5
ReadableObjectType == 6

getType(value) ==
    IF value.t # "ref" THEN PrimitiveType
    ELSE LET node == Heap[value.n] IN
         CASE node.kind = "promise" -> PromiseType
           [] node.kind = "readable" ->
                IF node.objectMode THEN ReadableObjectType ELSE ReadableStringType
           [] node.kind = "array" -> ArrayType
           [] OTHER -> ObjectType

\* JSON.stringify of a string of letters: no character needs an escape
quoteString(string) == <<"\"">> \o string \o <<"\"">>

primitiveToString(value) ==
    CASE value.t = "string" -> quoteString(value.s)
      [] value.t = "number" -> <<Digits[value.n + 1]>>
      [] value.t = "nan" -> <<"n", "u", "l", "l">>
      [] value.t = "boolean" ->
            IF value.n = 1 THEN <<"t", "r", "u", "e">> ELSE <<"f", "a", "l", "s", "e">>
      [] OTHER -> <<"n", "u", "l", "l">>

\* The replacer argument is absent ([on |-> FALSE]) or an array of keys.
NoReplacer == [on |-> FALSE, whitelist |-> {}]

normalizeReplacer(arg) ==
    IF arg.on THEN [on |-> TRUE, whitelist |-> arg.whitelist \cup {<<>>}]
    ELSE NoReplacer

\* The space argument is a number; the indentation unit is that many spaces,
\* at most 10, and the empty text stands for false.
normalizeSpace(arg) ==
    IF arg < 1 THEN <<>> ELSE Repeat(<<" ">>, Min(arg, 10))

\* the value a promise settles to, through promises that resolve to promises
RECURSIVE Settled(_)
Settled(id) ==
    LET node == Heap[id] IN
    IF node.settle = "resolve" /\ node.vals[1].t = "ref"
          /\ Heap[node.vals[1].n].kind = "promise"
    THEN Settled(node.vals[1].n)
    ELSE [how |-> node.settle, value |-> node.vals[1]]

(***************************************************************************)
(* State.                                                                  *)
(***************************************************************************)
VARIABLES
    root,           \* the value given to the constructor
    replacer,       \* this.replacer
    space,          \* this.space
    depth,          \* this._depth
    error,          \* this.error ("" for null)
    processing,     \* this._processing
    ended,          \* this._ended
    readSize,       \* this._readSize
    buffer,         \* this._buffer: [isNull, length, bytes], bytes = the first _bufferOffset bytes
    bufferOffset,   \* this._bufferOffset
    stack,          \* this._stack: the chain of frames, the last element is the top
    visited,        \* this._visited
    nextId,         \* identity of the next frame object
    ctl,            \* the call stack: operations still to run, head first
    sync,           \* Readable's state.sync: inside a _read call issued by read()
    conts,          \* continuations attached to promises that have not run yet
    ticks,          \* process.nextTick callbacks queued by abort
    streams,        \* the state of each producer
    out,            \* the data handed to the consumer so far
    events,         \* the error and end signals the consumer has seen, in order
    sincePull,      \* bytes handed to the consumer since the last _read call
    written,        \* the text push() has put into the buffer so far
    wlog,           \* the positions (paths from the root) push() was called for, in order
    clean,          \* no push() so far was split or cut by the buffer's end
    resizes,        \* how many pulls asked for another size than the pull before
    detected,       \* a circular structure has been detected
    via,            \* who pipes the stream into a file: "getCache", "getData" or "none"
    sink,           \* the file write stream: "none", "opening", "open", "failed", "finished"
    tmpFile,        \* the temporary file of getCache: "none" or "exists"
    cacheFile,      \* the cache file: "none", "direct" (opened by the sink) or "renamed"
    result,         \* the promise getCache returned: "none", "pending", "resolved", "rejected"
    maxChunkSize,   \* the chunk printer's maxChunkSize
    pBuffer,        \* the chunk printer's buffer: maxChunkSize bytes
    pBufferSize,    \* the chunk printer's bufferSize
    chunkBuffer,    \* chunkBuffer of the push generator that is running
    position,       \* where the running generator stands: "idle", "push", "finish", "tail", "done", "thrown"
    yielded,        \* what the generators have yielded so far, in order
    pushedBytes,    \* the bytes of all chunks given to push so far, in order
    pushes          \* how many times push was called

\* the files of the cache writer: no step of the encoder touches them
files == <<via, sink, tmpFile, cacheFile, result>>
\* the chunk printer: no step of the encoder touches it
printer == <<maxChunkSize, pBuffer, pBufferSize, chunkBuffer, position, yielded,
             pushedBytes, pushes>>
\* what no step of the encoder changes
config == <<root, replacer, space, files, printer>>
encoder == <<depth, error, processing, ended, readSize, buffer, bufferOffset,
             stack, visited, nextId>>
env == <<conts, ticks, streams>>
obs == <<out, events, sincePull, written, wlog, clean, resizes, detected>>
vars == <<config, encoder, ctl, sync, env, obs>>


(***************************************************************************)
(* Frames of the traversal stack and operations of the call stack.         *)
(***************************************************************************)
\* A frame object.  value is the node a composite or producer frame walks,
\* data the text of a literal frame (its "value" in the source), path the
\* position in the input the frame belongs to (indexes from the root),
\* remainder whether the frame was pushed by push() for the rest of a chunk
\* it split (lines 480-484).
Frame(id, handler, path) ==
    [id |-> id, handler |-> handler, value |-> 0, data |-> <<>>, index |-> 0,
     firstEntry |-> FALSE, awaiting |-> FALSE, firstRead |-> FALSE, path |-> path,
     remainder |-> FALSE]

Op(name, path) ==
    [op |-> name, data |-> <<>>, key |-> <<>>, val |-> Undefined, cb |-> "noop",
     size |-> 0, id |-> 0, path |-> path]

WriteOp(data, path) == [Op("write", path) EXCEPT !.data = data]
KeyOp(name, key, path) == [Op(name, path) EXCEPT !.key = key]
ValOp(name, val, path) == [Op(name, path) EXCEPT !.val = val]
SizeOp(name, size) == [Op(name, <<>>) EXCEPT !.size = size]
IdOp(name, id) == [Op(name, <<>>) EXCEPT !.id = id]
ProcessValueOp(key, val, cb, path) ==
    [Op("processValue", path) EXCEPT !.key = key, !.val = val, !.cb = cb]

\* callback.call(this, key): noop runs nothing
CallbackOps(cb, key, path) ==
    IF cb = "noop" THEN <<>> ELSE <<KeyOp(cb, key, path)>>

NullBuffer == [isNull |-> TRUE, length |-> 0, bytes |-> <<>>]

Top == stack[Len(stack)]
Running(name) == ctl # <<>> /\ Head(ctl).op = name
Return == ctl' = Tail(ctl)
Call(ops) == ctl' = ops \o Tail(ctl)
\* between two tasks of the event loop; nextTick callbacks run first
Idle == ctl = <<>> /\ ticks = <<>>

CompositeHandlers == {"processObject", "processArray", "processReadableObject"}

\* the frames left by popStack, and its effect on the cycle guard and the depth
PoppedStack == SubSeq(stack, 1, Len(stack) - 1)
PoppedVisited ==
    IF Top.handler \in CompositeHandlers THEN visited \ {Top.value} ELSE visited
PoppedDepth ==
    IF Top.handler \in CompositeHandlers THEN depth - 1 ELSE depth

\* an exception unwinds the call stack to the innermost try (processStack's,
\* marked by its afterHandler operation) or promise chain (thenEnd)
RECURSIVE Unwind(_)
Unwind(c) ==
    IF c = <<>> THEN <<>>
    ELSE IF Head(c).op \in {"afterHandler", "thenEnd"} THEN Tail(c)
    ELSE Unwind(Tail(c))

AbortTick(e) == [kind |-> "abort", error |-> e, sid |-> 0]
StreamTick(kind, sid) == [kind |-> kind, error |-> "", sid |-> sid]

\* abort that records the error only in its nextTick callback
abortLater(e) ==
    /\ error' = error
    /\ stack' = stack
    /\ processing' = processing
    /\ ended' = ended
    /\ ticks' = Append(ticks, AbortTick(e))

\* abort(error), lines 412-423: the nextTick callback is queued
abort(e) ==
    /\ error' = e
    /\ stack' = <<>>
    /\ processing' = FALSE
    /\ ended' = TRUE
    /\ ticks' = Append(ticks, AbortTick(e))

\* what abort leaves alone among the encoder's fields
abortKeeps == <<depth, readSize, buffer, bufferOffset, visited, nextId>>

\* an exception thrown by the running operation: both catch sites call abort
Throw(e) ==
    /\ ctl' = Unwind(ctl)
    /\ abort(e)
    /\ UNCHANGED <<config, abortKeeps, sync, conts, streams, obs>>

StreamIds == {id \in NodeIds : Heap[id].kind = "readable"}

InitStream(id) ==
    [avail |-> Heap[id].avail, chunks |-> Heap[id].chunks, eof |-> FALSE,
     endEmitted |-> Heap[id].readableEnded, errored |-> FALSE, listeners |-> <<>>]

ReplacerArgs == {NoReplacer, [on |-> TRUE, whitelist |-> {A}]}
ReadSizes == {1, 3, 8}

(***************************************************************************)
(* Init: the state the constructor leaves, lines 241-265.                  *)
(***************************************************************************)
Constructed ==
    /\ root \in Roots
    /\ replacer \in {normalizeReplacer(r) : r \in ReplacerArgs}
    /\ space \in {normalizeSpace(n) : n \in 0..MaxSpace}
    /\ depth = 0
    /\ error = ""
    /\ processing = FALSE
    /\ ended = FALSE
    /\ readSize = 0
    /\ buffer = NullBuffer
    /\ bufferOffset = 0
    /\ stack = <<Frame(1, "root", <<>>)>>
    /\ visited = {}
    /\ nextId = 2
    /\ ctl = <<>>
    /\ sync = FALSE
    /\ conts = {}
    /\ ticks = <<>>
    /\ streams = [id \in StreamIds |-> InitStream(id)]
    /\ out = <<>>
    /\ events = <<>>
    /\ sincePull = 0
    /\ written = <<>>
    /\ wlog = <<>>
    /\ clean = TRUE
    /\ resizes = 0
    /\ detected = FALSE

\* no chunk printer is in use
NoPrinter ==
    /\ maxChunkSize = 1
    /\ pBuffer = <<0>>
    /\ pBufferSize = 0
    /\ chunkBuffer = <<>>
    /\ position = "idle"
    /\ yielded = <<>>
    /\ pushedBytes = <<>>
    /\ pushes = 0

\* the stream is used on its own: nobody pipes it into a file
Init ==
    /\ Constructed
    /\ NoPrinter
    /\ via = "none"
    /\ sink = "none"
    /\ tmpFile = "none"
    /\ cacheFile = "none"
    /\ result = "none"

(***************************************************************************)
(* The consumer's pull and the driver, lines 441-473 and 508-528.          *)
(***************************************************************************)
\* the consumer may ask for size: it keeps to the size of its previous pull
\* once it has changed it MaxResizes times
MayAsk(size) == readSize = 0 \/ size = readSize \/ resizes < MaxResizes
Resized(size) == IF readSize = 0 \/ size = readSize THEN resizes ELSE resizes + 1

\* Readable.read() calls _read(size) with state.sync set, and clears it after
Pull(size) ==
    /\ Idle
    /\ "end" \notin {events[i] : i \in 1..Len(events)}
    /\ Len(out) < MaxOut
    /\ MayAsk(size)
    /\ resizes' = Resized(size)
    /\ ctl' = <<SizeOp("_read", size), Op("readReturn", <<>>)>>
    /\ sync' = TRUE
    /\ UNCHANGED <<config, encoder, env, out, events, sincePull, written, wlog,
                   clean, detected>>

ReadReturn ==
    /\ Running("readReturn")
    /\ Return
    /\ sync' = FALSE
    /\ UNCHANGED <<config, encoder, env, obs>>

\* an allocation that leaves the buffered bytes behind
AllocatedEmpty(size) ==
    IF buffer.isNull \/ buffer.length < 2 * size
    THEN [isNull |-> FALSE, length |-> 2 * size, bytes |-> <<>>]
    ELSE buffer

\* the buffer _read leaves, lines 516-524
Allocated(size) ==
    IF buffer.isNull \/ buffer.length < 2 * size
    THEN [isNull |-> FALSE, length |-> 2 * size,
          bytes |-> IF ~buffer.isNull /\ bufferOffset > 0 THEN buffer.bytes ELSE <<>>]
    ELSE buffer

\* _read(size)
Read ==
    /\ Running("_read")
    /\ LET size == Head(ctl).size IN
       IF ended
       THEN Return /\ UNCHANGED <<readSize, buffer>>
       ELSE /\ readSize' = size
            /\ buffer' = Allocated(size)
            /\ Call(<<SizeOp("processStack", size)>>)
    /\ sincePull' = 0
    /\ UNCHANGED <<config, depth, error, processing, ended, bufferOffset, stack,
                   visited, nextId, sync, env, out, events, written, wlog, clean,
                   resizes, detected>>

\* processStack(size), lines 442-447
ProcessStack ==
    /\ Running("processStack")
    /\ IF processing \/ ended
       THEN Return /\ UNCHANGED processing
       ELSE processing' = TRUE /\ Call(<<SizeOp("loop", Head(ctl).size)>>)
    /\ UNCHANGED <<config, depth, error, ended, readSize, buffer, bufferOffset,
                   stack, visited, nextId, sync, env, obs>>

\* the while condition holds: the top frame's handler is called, lines 449-450
LoopCall ==
    /\ Running("loop")
    /\ stack # <<>> /\ ~Top.awaiting
    /\ Call(<<SizeOp(Top.handler, Head(ctl).size),
              SizeOp("afterHandler", Head(ctl).size)>>)
    /\ UNCHANGED <<config, encoder, sync, env, obs>>

\* the while condition fails: lines 457 and 463-472
LoopExit ==
    /\ Running("loop")
    /\ ~(stack # <<>> /\ ~Top.awaiting)
    /\ processing' = FALSE
    /\ IF stack = <<>> /\ ~ended
       THEN /\ ended' = TRUE
            /\ out' = IF bufferOffset > 0 THEN out \o buffer.bytes ELSE out
            /\ sincePull' = sincePull + bufferOffset
            /\ events' = Append(events, "end")
            /\ buffer' = NullBuffer
       ELSE UNCHANGED <<ended, out, sincePull, events, buffer>>
    /\ Return
    /\ UNCHANGED <<config, depth, error, readSize, bufferOffset, stack, visited,
                   nextId, sync, env, written, wlog, clean, resizes, detected>>

\* after a handler returned, lines 452-454
AfterHandler ==
    /\ Running("afterHandler")
    /\ IF ~processing THEN Return
       ELSE Call(<<SizeOp("loop", Head(ctl).size)>>)
    /\ UNCHANGED <<config, encoder, sync, env, obs>>


(***************************************************************************)
(* popStack and the stack handlers, lines 115-203 and 259-264.             *)
(***************************************************************************)
\* popStack(), lines 430-439; destructuring a null stack throws
PopStack ==
    /\ Running("popStack")
    /\ IF stack = <<>> THEN Throw("TypeError")
       ELSE /\ stack' = PoppedStack
            /\ visited' = PoppedVisited
            /\ depth' = PoppedDepth
            /\ Return
            /\ UNCHANGED <<config, error, processing, ended, readSize, buffer,
                           bufferOffset, nextId, sync, env, obs>>

\* the root frame's handler, lines 260-263
HandlerRoot ==
    /\ Running("root")
    /\ stack' = PoppedStack
    /\ Call(<<ProcessValueOp(<<>>, root, "noop", <<>>)>>)
    /\ UNCHANGED <<config, depth, error, processing, ended, readSize, buffer,
                   bufferOffset, visited, nextId, sync, env, obs>>

\* function push(), lines 115-118: emit the literal of the top frame, then pop
\* whatever frame is the top by then
HandlerPush ==
    /\ Running("push")
    /\ Call(<<WriteOp(Top.data, Top.path), Op("popStack", <<>>)>>)
    /\ UNCHANGED <<config, encoder, sync, env, obs>>

Newline == <<"\n">>

\* current.keys[index] and current.value[index]: undefined past the end
KeyAt(keys, index) ==
    IF index + 1 \in DOMAIN keys THEN keys[index + 1] ELSE UndefinedKey
ValueAt(vals, index) ==
    IF index + 1 \in DOMAIN vals THEN vals[index + 1] ELSE Undefined

\* processObject, lines 136-153
ProcessObject ==
    /\ Running("processObject")
    /\ LET current == Top
           node == Heap[current.value]
       IN IF current.index = Len(node.keys)
          THEN IF space # <<>> /\ ~current.firstEntry
               THEN IF CanRepeat(depth - 1)
                    THEN /\ Call(<<WriteOp(Newline \o Repeat(space, depth - 1),
                                           Append(current.path, Len(node.keys))),
                                   Op("popStack", <<>>)>>)
                         /\ UNCHANGED <<config, encoder, sync, env, obs>>
                    ELSE Throw("RangeError")
               ELSE /\ Call(<<Op("popStack", <<>>)>>)
                    /\ UNCHANGED <<config, encoder, sync, env, obs>>
          ELSE /\ Call(<<ProcessValueOp(KeyAt(node.keys, current.index),
                                        ValueAt(node.vals, current.index),
                                        "processObjectEntry",
                                        Append(current.path, current.index)),
                         IdOp("incIndex", current.id)>>)
               /\ UNCHANGED <<config, encoder, sync, env, obs>>

\* processArray, lines 165-175
ProcessArray ==
    /\ Running("processArray")
    /\ LET current == Top
           node == Heap[current.value]
       IN IF current.index = Len(node.vals)
          THEN Call(<<Op("popStack", <<>>)>>)
          ELSE Call(<<ProcessValueOp(IndexKey(current.index),
                                     ValueAt(node.vals, current.index),
                                     "processArrayItem",
                                     Append(current.path, current.index)),
                      IdOp("incIndex", current.id)>>)
    /\ UNCHANGED <<config, encoder, sync, env, obs>>

\* A cursor that has passed the end of an object's key list never equals its
\* length again: every later visit of the frame skips an undefined entry and
\* advances it.  The model keeps such a cursor where it is.
Advanced(frame) ==
    IF frame.handler = "processObject" /\ frame.index > Len(Heap[frame.value].keys)
    THEN frame ELSE [frame EXCEPT !.index = @ + 1]

\* current.index += 1 on the frame object the handler captured (lines 152, 174
\* and 198): it has no effect on the stack once that frame has left it
IncIndex ==
    /\ Running("incIndex")
    /\ stack' = [i \in 1..Len(stack) |->
                    IF stack[i].id = Head(ctl).id THEN Advanced(stack[i])
                    ELSE stack[i]]
    /\ Return
    /\ UNCHANGED <<config, depth, error, processing, ended, readSize, buffer,
                   bufferOffset, visited, nextId, sync, env, obs>>

\* processObjectEntry(key), lines 120-127: the separator
ProcessObjectEntry ==
    /\ Running("processObjectEntry")
    /\ LET h == Head(ctl) IN
       IF stack = <<>> THEN Throw("TypeError")
       ELSE /\ IF Top.firstEntry
               THEN /\ stack' = [stack EXCEPT ![Len(stack)].firstEntry = FALSE]
                    /\ Call(<<KeyOp("writeKey", h.key, h.path)>>)
               ELSE /\ UNCHANGED stack
                    /\ Call(<<WriteOp(<<",">>, h.path),
                              KeyOp("writeKey", h.key, h.path)>>)
            /\ UNCHANGED <<config, depth, error, processing, ended, readSize,
                           buffer, bufferOffset, visited, nextId, sync, env, obs>>

\* the key of an object entry as processObjectEntry writes it, lines 129-133
KeyText(key) ==
    IF space # <<>>
    THEN Newline \o Repeat(space, depth) \o quoteString(key) \o <<":", " ">>
    ELSE quoteString(key) \o <<":">>

\* processObjectEntry(key), lines 129-133: the key
WriteKey ==
    /\ Running("writeKey")
    /\ IF space # <<>> /\ ~CanRepeat(depth) THEN Throw("RangeError")
       ELSE /\ Call(<<WriteOp(KeyText(Head(ctl).key), Head(ctl).path)>>)
            /\ UNCHANGED <<config, encoder, sync, env, obs>>

\* processArrayItem(index), lines 155-158: the separator
ProcessArrayItem ==
    /\ Running("processArrayItem")
    /\ LET h == Head(ctl) IN
       Call((IF h.key # <<"0">> THEN <<WriteOp(<<",">>, h.path)>> ELSE <<>>)
            \o (IF space # <<>> THEN <<Op("writeIndent", h.path)>> ELSE <<>>))
    /\ UNCHANGED <<config, encoder, sync, env, obs>>

\* processArrayItem(index), lines 160-162: the indentation
WriteIndent ==
    /\ Running("writeIndent")
    /\ IF ~CanRepeat(depth) THEN Throw("RangeError")
       ELSE /\ Call(<<WriteOp(Newline \o Repeat(space, depth), Head(ctl).path)>>)
            /\ UNCHANGED <<config, encoder, sync, env, obs>>


(***************************************************************************)
(* processValue, lines 267-410.                                            *)
(***************************************************************************)
\* value.toJSON(), lines 268-270
AfterToJSON(value) ==
    IF value.t = "ref" /\ Heap[value.n].kind = "tojson"
    THEN Heap[value.n].vals[1] ELSE value

\* the replacer built from an array of keys, lines 272-274 and 218
AfterReplacer(key, value) ==
    IF replacer.on /\ key \notin replacer.whitelist THEN Undefined ELSE value

\* functions and symbols become undefined, lines 276-278
AfterCoercion(value) == IF value.t = "function" THEN Undefined ELSE value

\* the value processValue classifies
Classified(key, value) == AfterCoercion(AfterReplacer(key, AfterToJSON(value)))

\* processValue(key, value, callback) up to its switch: a primitive is written,
\* a promise gets its placeholder frame and its continuation, the other kinds
\* run the callback and go on in EnterObject, EnterArray or AttachReadable
ProcessValue ==
    /\ Running("processValue")
    /\ LET h == Head(ctl)
           value == Classified(h.key, h.val)
           type == getType(value)
       IN CASE type = PrimitiveType ->
                 /\ IF h.cb # "processObjectEntry" \/ value.t # "undefined"
                    THEN Call(CallbackOps(h.cb, h.key, h.path)
                              \o <<WriteOp(primitiveToString(value), h.path)>>)
                    ELSE Return
                 /\ UNCHANGED <<stack, nextId, conts>>
            [] type = PromiseType ->
                 /\ stack' = Append(stack, [Frame(nextId, "promise", h.path)
                                              EXCEPT !.awaiting = TRUE])
                 /\ nextId' = nextId + 1
                 /\ conts' = conts \cup {[frame |-> nextId, promise |-> value.n,
                                          key |-> h.key, cb |-> h.cb, path |-> h.path]}
                 /\ Return
            [] type = ObjectType ->
                 /\ Call(CallbackOps(h.cb, h.key, h.path)
                         \o <<ValOp("enterObject", value, h.path)>>)
                 /\ UNCHANGED <<stack, nextId, conts>>
            [] type = ArrayType ->
                 /\ Call(CallbackOps(h.cb, h.key, h.path)
                         \o <<ValOp("enterArray", value, h.path)>>)
                 /\ UNCHANGED <<stack, nextId, conts>>
            [] OTHER ->
                 /\ Call(CallbackOps(h.cb, h.key, h.path)
                         \o <<ValOp("attachReadable", value, h.path)>>)
                 /\ UNCHANGED <<stack, nextId, conts>>
    /\ UNCHANGED <<config, depth, error, processing, ended, readSize, buffer,
                   bufferOffset, visited, sync, ticks, streams, obs>>

\* the circular-structure check, lines 311-315 and 343-347
Circular(value) == value.n \in visited

\* case ObjectType after the callback, lines 310-324
EnterObject ==
    /\ Running("enterObject")
    /\ LET h == Head(ctl) IN
       IF Circular(h.val)
       THEN /\ abort("circular")
            /\ detected' = TRUE
            /\ Return
            /\ UNCHANGED <<config, abortKeeps, sync, conts, streams, out, events,
                           sincePull, written, wlog, clean, resizes>>
       ELSE /\ visited' = visited \cup {h.val.n}
            /\ IF Heap[h.val.n].keys = <<>>
               THEN Call(<<WriteOp(<<"{", "}">>, h.path)>>)
               ELSE Call(<<WriteOp(<<"{">>, h.path), ValOp("pushObject", h.val, h.path)>>)
            /\ UNCHANGED <<config, depth, error, processing, ended, readSize,
                           buffer, bufferOffset, stack, nextId, sync, env, obs>>

\* case ObjectType, lines 325-336
PushObject ==
    /\ Running("pushObject")
    /\ LET h == Head(ctl)
           node == Heap[h.val.n]
       IN stack' = stack \o
            <<[Frame(nextId, "push", Append(h.path, Len(node.keys)))
                 EXCEPT !.data = <<"}">>],
              [Frame(nextId + 1, "processObject", h.path)
                 EXCEPT !.value = h.val.n, !.firstEntry = TRUE]>>
    /\ nextId' = nextId + 2
    /\ depth' = depth + 1
    /\ Return
    /\ UNCHANGED <<config, error, processing, ended, readSize, buffer,
                   bufferOffset, visited, sync, env, obs>>

\* case ArrayType after the callback, lines 342-354
EnterArray ==
    /\ Running("enterArray")
    /\ LET h == Head(ctl) IN
       IF Circular(h.val)
       THEN /\ abort("circular")
            /\ detected' = TRUE
            /\ Return
            /\ UNCHANGED <<config, abortKeeps, sync, conts, streams, out, events,
                           sincePull, written, wlog, clean, resizes>>
       ELSE /\ visited' = visited \cup {h.val.n}
            /\ IF Heap[h.val.n].vals = <<>>
               THEN Call(<<WriteOp(<<"[", "]">>, h.path)>>)
               ELSE Call(<<WriteOp(<<"[">>, h.path), ValOp("pushArray", h.val, h.path)>>)
            /\ UNCHANGED <<config, depth, error, processing, ended, readSize,
                           buffer, bufferOffset, stack, nextId, sync, env, obs>>

\* the closing bracket of an array or of a record producer, lines 357 and 383
CloserText ==
    IF space # <<>> THEN Newline \o Repeat(space, depth) \o <<"]">> ELSE <<"]">>

\* case ArrayType, lines 355-364
PushArray ==
    /\ Running("pushArray")
    /\ LET h == Head(ctl)
           node == Heap[h.val.n]
       IN IF space # <<>> /\ ~CanRepeat(depth) THEN Throw("RangeError")
          ELSE /\ stack' = stack \o
                     <<[Frame(nextId, "push", Append(h.path, Len(node.vals)))
                          EXCEPT !.data = CloserText],
                       [Frame(nextId + 1, "processArray", h.path)
                          EXCEPT !.value = h.val.n]>>
               /\ nextId' = nextId + 2
               /\ depth' = depth + 1
               /\ Return
               /\ UNCHANGED <<config, error, processing, ended, readSize, buffer,
                              bufferOffset, visited, sync, env, obs>>


(***************************************************************************)
(* Producers (Readable streams given as values), lines 177-203, 367-408.   *)
(***************************************************************************)
\* value.readable and value.readableLength as line 393 reads them
IsReadable(st) == ~st.errored /\ ~st.endEmitted

\* case ReadableStringType / ReadableObjectType after the callback, lines 371-380
AttachReadable ==
    /\ Running("attachReadable")
    /\ LET h == Head(ctl)
           node == Heap[h.val.n]
           st == streams[h.val.n]
       IN CASE st.endEmitted ->
                 /\ abort("StreamAlreadyEnded")
                 /\ Return
                 /\ UNCHANGED <<config, abortKeeps, sync, conts, streams, obs>>
            [] ~st.endEmitted /\ node.flowing ->
                 /\ abort("StreamFlowing")
                 /\ Return
                 /\ UNCHANGED <<config, abortKeeps, sync, conts, streams, obs>>
            [] OTHER ->
                 /\ IF node.objectMode
                    THEN Call(<<WriteOp(<<"[">>, h.path),
                                ValOp("pushReadable", h.val, h.path)>>)
                    ELSE Call(<<ValOp("pushReadable", h.val, h.path)>>)
                 /\ UNCHANGED <<config, encoder, sync, env, obs>>

\* lines 381-407: the closer and the producer's frame are pushed and the
\* listeners subscribed; on('readable') schedules a first notification when
\* the producer already holds data
PushReadable ==
    /\ Running("pushReadable")
    /\ LET h == Head(ctl)
           sid == h.val.n
           node == Heap[sid]
           st == streams[sid]
           units == Len(node.avail) + Len(node.chunks)
           selfId == IF node.objectMode THEN nextId + 1 ELSE nextId
           self == [Frame(selfId,
                          IF node.objectMode THEN "processReadableObject"
                          ELSE "processReadableString", h.path)
                      EXCEPT !.value = sid, !.firstRead = TRUE,
                             !.awaiting = ~IsReadable(st) \/ Len(st.avail) = 0]
       IN IF node.objectMode /\ space # <<>> /\ ~CanRepeat(depth)
          THEN Throw("RangeError")
          ELSE /\ stack' = stack \o
                     (IF node.objectMode
                      THEN <<[Frame(nextId, "push", Append(h.path, units))
                                EXCEPT !.data = CloserText]>>
                      ELSE <<>>) \o <<self>>
               /\ nextId' = selfId + 1
               /\ depth' = IF node.objectMode THEN depth + 1 ELSE depth
               /\ streams' = [streams EXCEPT ![sid].listeners = Append(@, selfId)]
               /\ ticks' = IF st.avail # <<>>
                           THEN Append(ticks, StreamTick("readable", sid)) ELSE ticks
               /\ Return
               /\ UNCHANGED <<config, error, processing, ended, readSize, buffer,
                              bufferOffset, visited, sync, conts, obs>>

\* Readable.read(size) of a paused producer: the units it returns (<<>> for
\* null).  An object-mode producer returns one unit; a text producer returns
\* size characters, everything when size is undefined (0) or the source has
\* ended, and null when it holds less than size and the source has not ended.
ReadUnits(node, st, size) ==
    IF st.avail = <<>> THEN <<>>
    ELSE IF node.objectMode THEN <<Head(st.avail)>>
    ELSE IF size = 0 \/ (size > Len(st.avail) /\ st.eof) THEN st.avail
    ELSE IF size > Len(st.avail) THEN <<>>
    ELSE SubSeq(st.avail, 1, size)

\* createStreamReader's function with processReadableObject's or
\* processReadableString's body, lines 178-203
ProcessReadable ==
    /\ ctl # <<>>
    /\ Head(ctl).op \in {"processReadableObject", "processReadableString"}
    /\ LET current == Top
           sid == current.value
           node == Heap[sid]
           st == streams[sid]
           data == ReadUnits(node, st, Head(ctl).size)
           left == SubSeq(st.avail, Len(data) + 1, Len(st.avail))
           \* read() schedules 'end' once the source has ended and nothing is left
           ending == st.eof /\ left = <<>> /\ ~st.endEmitted
                        /\ (data = <<>> \/ Head(ctl).size # Len(data))
       IN /\ streams' = [streams EXCEPT ![sid].avail = left]
          /\ ticks' = IF ending /\ \A i \in 1..Len(ticks) : ticks[i] # StreamTick("end", sid)
                      THEN Append(ticks, StreamTick("end", sid)) ELSE ticks
          /\ IF data # <<>>
             THEN /\ stack' = [stack EXCEPT ![Len(stack)].firstRead = FALSE]
                  /\ IF node.objectMode
                     THEN Call(<<ProcessValueOp(IndexKey(current.index), data[1],
                                                "processArrayItem",
                                                Append(current.path, current.index)),
                                 IdOp("incIndex", current.id)>>)
                     ELSE Call(<<WriteOp(data, current.path)>>)
             ELSE IF current.firstRead
                  THEN /\ Call(<<Op("popStack", <<>>)>>)
                       /\ UNCHANGED stack
                  ELSE /\ stack' = [stack EXCEPT ![Len(stack)].firstRead = TRUE,
                                                 ![Len(stack)].awaiting = TRUE]
                       /\ Return
    /\ UNCHANGED <<config, depth, error, processing, ended, readSize, buffer,
                   bufferOffset, visited, nextId, sync, conts, obs>>

\* the listeners of a producer's notification run one after the other
ListenerOps(name, sid) ==
    [i \in 1..Len(streams[sid].listeners) |-> IdOp(name, streams[sid].listeners[i])]

\* the producer's source delivers its next chunk; 'readable' is emitted
StreamData(sid) ==
    /\ Idle
    /\ LET st == streams[sid] IN
       /\ st.listeners # <<>> /\ st.chunks # <<>> /\ ~st.errored
       /\ streams' = [streams EXCEPT
             ![sid].avail = IF Heap[sid].objectMode THEN Append(@, Head(st.chunks))
                            ELSE @ \o Head(st.chunks),
             ![sid].chunks = Tail(@)]
    /\ ctl' = ListenerOps("continueProcessing", sid)
    /\ UNCHANGED <<config, encoder, sync, conts, ticks, obs>>

\* the producer's source ends; 'readable' is emitted for the end of the data
StreamEof(sid) ==
    /\ Idle
    /\ LET st == streams[sid] IN
       /\ st.listeners # <<>> /\ st.chunks = <<>> /\ ~st.eof /\ ~st.errored
       /\ streams' = [streams EXCEPT ![sid].eof = TRUE]
    /\ ctl' = ListenerOps("continueProcessing", sid)
    /\ UNCHANGED <<config, encoder, sync, conts, ticks, obs>>

\* the producer reports an error: the listener of line 405 runs
StreamError(sid) ==
    /\ Idle
    /\ LET st == streams[sid] IN
       /\ Heap[sid].fails /\ st.listeners # <<>> /\ ~st.errored /\ ~st.endEmitted
       /\ streams' = [streams EXCEPT ![sid].errored = TRUE]
    /\ ctl' = ListenerOps("onError", sid)
    /\ UNCHANGED <<config, encoder, sync, conts, ticks, obs>>

\* error => this.abort(error), line 405
OnError ==
    /\ Running("onError")
    /\ abort("UpstreamFailure")
    /\ Return
    /\ UNCHANGED <<config, abortKeeps, sync, conts, streams, obs>>

\* the 'readable' notification that on('readable') scheduled: it is emitted
\* only if the producer holds data or has ended by then
TickReadable ==
    /\ ctl = <<>> /\ ticks # <<>> /\ Head(ticks).kind = "readable"
    /\ LET st == streams[Head(ticks).sid] IN
       ctl' = IF (st.avail # <<>> \/ st.eof) /\ ~st.errored
              THEN ListenerOps("continueProcessing", Head(ticks).sid) ELSE <<>>
    /\ ticks' = Tail(ticks)
    /\ UNCHANGED <<config, encoder, sync, conts, streams, obs>>

\* 'end' is emitted: the once('end') listeners run
TickEnd ==
    /\ ctl = <<>> /\ ticks # <<>> /\ Head(ticks).kind = "end"
    /\ LET sid == Head(ticks).sid IN
       /\ streams' = [streams EXCEPT ![sid].endEmitted = TRUE]
       /\ ctl' = IF streams[sid].errored THEN <<>>
                 ELSE ListenerOps("continueProcessing", sid)
    /\ ticks' = Tail(ticks)
    /\ UNCHANGED <<config, encoder, sync, conts, obs>>

\* continueProcessing, lines 395-403, of the frame object self
ContinueProcessing ==
    /\ Running("continueProcessing")
    /\ LET self == Head(ctl).id
           onStack == \E i \in 1..Len(stack) : stack[i].id = self /\ stack[i].awaiting
       IN /\ stack' = [i \in 1..Len(stack) |->
                          IF stack[i].id = self
                          THEN [stack[i] EXCEPT !.awaiting = FALSE] ELSE stack[i]]
          /\ IF onStack /\ Top.id = self
             THEN Call(<<SizeOp("processStack", 0)>>)
             ELSE Return
    /\ UNCHANGED <<config, depth, error, processing, ended, readSize, buffer,
                   bufferOffset, visited, nextId, sync, env, obs>>


(***************************************************************************)
(* The staging buffer: push(data), lines 475-506.                          *)
(***************************************************************************)
\* the logical write limit of line 477
WriteLimit == bufferOffset + readSize

\* Buffer.write / Buffer.copy store what fits between the offset and the end
\* of the buffer and return that count, lines 489-491
Stored(data) == SubSeq(data, 1, Min(Len(data), buffer.length - bufferOffset))

LogPath(path) ==
    IF wlog # <<>> /\ wlog[Len(wlog)] = path THEN wlog ELSE Append(wlog, path)

\* push(data) with data other than null
Write ==
    /\ Running("write")
    /\ LET h == Head(ctl)
           max == WriteLimit
           split == Len(h.data) > max
           data == IF split THEN SubSeq(h.data, 1, max) ELSE h.data
           rest == SubSeq(h.data, max + 1, Len(h.data))
           stored == Stored(data)
           bytes == buffer.bytes \o stored
           offset == bufferOffset + Len(stored)
       IN IF buffer.isNull THEN Throw("TypeError")
          ELSE /\ stack' = IF split
                           THEN Append(stack, [Frame(nextId, "push", h.path)
                                                 EXCEPT !.data = rest,
                                                        !.remainder = TRUE])
                           ELSE stack
               /\ nextId' = IF split THEN nextId + 1 ELSE nextId
               /\ written' = written \o data
               /\ wlog' = LogPath(h.path)
               /\ clean' = (clean /\ ~split /\ stored = data)
               /\ IF offset < readSize
                  THEN /\ buffer' = [buffer EXCEPT !.bytes = bytes]
                       /\ bufferOffset' = offset
                       /\ Return
                       /\ UNCHANGED <<processing, out, sincePull>>
                  ELSE /\ out' = out \o SubSeq(bytes, 1, readSize)
                       /\ sincePull' = sincePull + readSize
                       /\ buffer' = [buffer EXCEPT
                                       !.bytes = SubSeq(bytes, readSize + 1, offset)]
                       /\ bufferOffset' = offset - readSize
                       /\ processing' = FALSE
                       /\ IF sync THEN Return ELSE Call(<<Op("superPush", <<>>)>>)
               /\ UNCHANGED <<config, depth, error, ended, readSize, visited, sync,
                              env, events, resizes, detected>>

\* super.push(data) outside a _read call: the consumer takes the chunk and
\* does not pull before push returns
SuperPushReturn ==
    /\ Running("superPush")
    /\ Return
    /\ UNCHANGED <<config, encoder, sync, env, obs>>

\* super.push(data) outside a _read call: the consumer takes the chunk and
\* pulls again before push returns
SuperPushPull(size) ==
    /\ Running("superPush")
    /\ Len(out) < MaxOut
    /\ MayAsk(size)
    /\ resizes' = Resized(size)
    /\ Call(<<SizeOp("_read", size), Op("readReturn", <<>>)>>)
    /\ sync' = TRUE
    /\ UNCHANGED <<config, encoder, env, out, events, sincePull, written, wlog,
                   clean, detected>>

(***************************************************************************)
(* Promises, lines 290-305, and abort's nextTick callback, lines 418-422.  *)
(***************************************************************************)
\* the promise resolves: the continuation of lines 297-301 starts
PromiseThen(c) ==
    /\ Idle
    /\ c \in conts
    /\ Settled(c.promise).how = "resolve"
    /\ conts' = conts \ {c}
    /\ ctl' = <<Op("popStack", <<>>),
                ProcessValueOp(c.key, Settled(c.promise).value, c.cb, c.path),
                SizeOp("processStack", 0),
                Op("thenEnd", <<>>)>>
    /\ UNCHANGED <<config, encoder, sync, ticks, streams, obs>>

\* the continuation returned without an exception
ThenEnd ==
    /\ Running("thenEnd")
    /\ Return
    /\ UNCHANGED <<config, encoder, sync, env, obs>>

\* the promise rejects: the continuation of lines 302-304
PromiseCatch(c) ==
    /\ Idle
    /\ c \in conts
    /\ Settled(c.promise).how = "reject"
    /\ conts' = conts \ {c}
    /\ abort("UpstreamFailure")
    /\ UNCHANGED <<config, abortKeeps, ctl, sync, streams, obs>>

\* the callback abort queued: the buffer is dropped, 'error' is emitted and
\* the stream is ended (a second end of a stream that has ended is ignored)
TickAbort ==
    /\ ctl = <<>> /\ ticks # <<>> /\ Head(ticks).kind = "abort"
    /\ buffer' = NullBuffer
    /\ events' = events \o <<"error">>
                   \o (IF \E i \in 1..Len(events) : events[i] = "end"
                       THEN <<>> ELSE <<"end">>)
    /\ ticks' = Tail(ticks)
    /\ UNCHANGED <<config, depth, error, processing, ended, readSize, bufferOffset,
                   stack, visited, nextId, ctl, sync, conts, streams, out,
                   sincePull, written, wlog, clean, resizes, detected>>

(***************************************************************************)
(* The specification.                                                      *)
(***************************************************************************)
Next ==
    \/ \E size \in ReadSizes : Pull(size)
    \/ ReadReturn
    \/ Read
    \/ ProcessStack
    \/ LoopCall
    \/ LoopExit
    \/ AfterHandler
    \/ PopStack
    \/ HandlerRoot
    \/ HandlerPush
    \/ ProcessObject
    \/ ProcessArray
    \/ IncIndex
    \/ ProcessObjectEntry
    \/ WriteKey
    \/ ProcessArrayItem
    \/ WriteIndent
    \/ ProcessValue
    \/ EnterObject
    \/ PushObject
    \/ EnterArray
    \/ PushArray
    \/ AttachReadable
    \/ PushReadable
    \/ ProcessReadable
    \/ \E sid \in StreamIds : StreamData(sid)
    \/ \E sid \in StreamIds : StreamEof(sid)
    \/ \E sid \in StreamIds : StreamError(sid)
    \/ OnError
    \/ TickReadable
    \/ TickEnd
    \/ ContinueProcessing
    \/ Write
    \/ SuperPushReturn
    \/ \E size \in ReadSizes : SuperPushPull(size)
    \/ \E c \in conts : PromiseThen(c)
    \/ ThenEnd
    \/ \E c \in conts : PromiseCatch(c)
    \/ TickAbort

Spec == Init /\ [][Next]_vars

(***************************************************************************)
(* The input as the encoder reads it: what is emitted at a position, the   *)
(* positions below a node, and whether a node lies on a cycle.             *)
(***************************************************************************)
RECURSIVE Resolved(_, _)
\* the value written at a position: processValue's classification, taken
\* again on what a promise resolves to (lines 268-278 and 297-300)
Resolved(key, value) ==
    LET v == Classified(key, value) IN
    IF getType(v) # PromiseType THEN v
    ELSE IF Settled(v.n).how = "resolve" THEN Resolved(key, Settled(v.n).value)
    ELSE Undefined

\* the entries of a node as processObject, processArray and
\* processReadableObject walk them: <<key, value>> pairs
Entries(id) ==
    LET node == Heap[id] IN
    CASE node.kind = "object" ->
            [i \in 1..Len(node.keys) |-> <<node.keys[i], node.vals[i]>>]
      [] node.kind = "array" ->
            [i \in 1..Len(node.vals) |-> <<IndexKey(i - 1), node.vals[i]>>]
      [] node.kind = "readable" /\ node.objectMode ->
            [i \in 1..Len(node.avail \o node.chunks) |->
                <<IndexKey(i - 1), (node.avail \o node.chunks)[i]>>]
      [] OTHER -> <<>>

\* the nodes entered from a node
Kids(id) ==
    {v.n : v \in {r \in {Resolved(Entries(id)[i][1], Entries(id)[i][2]) :
                            i \in DOMAIN Entries(id)} : r.t = "ref"}}

RECURSIVE Closure(_)
Closure(ids) ==
    LET more == ids \cup UNION {Kids(i) : i \in ids}
    IN IF more = ids THEN ids ELSE Closure(more)

\* the nodes the traversal of value enters
Entered(value) ==
    LET r == Resolved(<<>>, value)
    IN IF r.t = "ref" THEN Closure({r.n}) ELSE {}

\* an object or array of the input is reachable from itself
Cyclic(value) ==
    \E i \in Entered(value) :
        Heap[i].kind \in {"object", "array"} /\ i \in Closure(Kids(i))

\* the input holds a deferred value / a producer at some position
RECURSIVE Below(_)
Below(ids) ==
    LET direct == {v.n : v \in {x \in UNION {{Heap[i].vals[k] : k \in DOMAIN Heap[i].vals}
                                              \cup {Entries(i)[k][2] : k \in DOMAIN Entries(i)}
                                              : i \in ids} : x.t = "ref"}}
        more == ids \cup direct
    IN IF more = ids THEN ids ELSE Below(more)

Kinds(value) == {Heap[i].kind : i \in Below({value.n})}
HasDeferred(value) == "promise" \in Kinds(value)
HasProducer(value) == "readable" \in Kinds(value)
Rejects(value) == \E i \in Below({value.n}) : Heap[i].settle = "reject"

(***************************************************************************)
(* JSON values, the text of a value, and the standard decoder.             *)
(***************************************************************************)
TreeOf(t, n, s, keys, items) ==
    [t |-> t, n |-> n, s |-> s, keys |-> keys, items |-> items]

Invalid == TreeOf("invalid", 0, <<>>, <<>>, <<>>)

\* the JSON value of a primitive: NaN, null and undefined give null
Leaf(v) ==
    CASE v.t = "number" -> TreeOf("number", v.n, <<>>, <<>>, <<>>)
      [] v.t = "string" -> TreeOf("string", 0, v.s, <<>>, <<>>)
      [] v.t = "boolean" -> TreeOf(IF v.n = 1 THEN "true" ELSE "false", 0, <<>>, <<>>, <<>>)
      [] OTHER -> TreeOf("null", 0, <<>>, <<>>, <<>>)

RECURSIVE Pick(_, _)
\* the elements of seq at the places where keep holds
Pick(seq, keep) ==
    IF seq = <<>> THEN <<>>
    ELSE (IF Head(keep) THEN <<Head(seq)>> ELSE <<>>) \o Pick(Tail(seq), Tail(keep))

RECURSIVE Tree(_, _)
\* the filtered/transformed input at a position, for an acyclic input: an
\* object entry whose value is undefined is left out (line 284)
Tree(key, value) ==
    LET v == Resolved(key, value) IN
    IF v.t # "ref" THEN Leaf(v)
    ELSE LET es == Entries(v.n)
             sub == [i \in DOMAIN es |-> Tree(es[i][1], es[i][2])]
             keep == [i \in DOMAIN es |-> Resolved(es[i][1], es[i][2]).t # "undefined"]
         IN IF Heap[v.n].kind = "object"
            THEN TreeOf("object", 0, <<>>,
                        Pick([i \in DOMAIN es |-> es[i][1]], keep), Pick(sub, keep))
            ELSE TreeOf("array", 0, <<>>, <<>>, sub)

RECURSIVE JoinComma(_)
JoinComma(ts) ==
    IF ts = <<>> THEN <<>>
    ELSE IF Len(ts) = 1 THEN ts[1]
    ELSE ts[1] \o <<",">> \o JoinComma(Tail(ts))

\* the line break and indentation in front of an entry at depth d
Indent(d) == IF space # <<>> THEN Newline \o Repeat(space, d) ELSE <<>>

RECURSIVE Text(_, _)
\* the text of a JSON value at depth d in the encoder's layout: the texts of
\* lines 129-133, 160-162, 141-143, 319, 351 and 357
Text(tree, d) ==
    CASE tree.t = "number" -> IndexKey(tree.n)
      [] tree.t = "string" -> quoteString(tree.s)
      [] tree.t = "null" -> <<"n", "u", "l", "l">>
      [] tree.t = "true" -> <<"t", "r", "u", "e">>
      [] tree.t = "false" -> <<"f", "a", "l", "s", "e">>
      [] tree.t = "array" ->
            IF tree.items = <<>> THEN <<"[", "]">>
            ELSE <<"[">>
                 \o JoinComma([i \in DOMAIN tree.items |->
                                  Indent(d + 1) \o Text(tree.items[i], d + 1)])
                 \o Indent(d) \o <<"]">>
      [] tree.t = "object" ->
            IF tree.items = <<>> THEN <<"{", "}">>
            ELSE <<"{">>
                 \o JoinComma([i \in DOMAIN tree.items |->
                                  Indent(d + 1) \o quoteString(tree.keys[i])
                                  \o (IF space # <<>> THEN <<":", " ">> ELSE <<":">>)
                                  \o Text(tree.items[i], d + 1)])
                 \o Indent(d) \o <<"}">>
      [] OTHER -> <<>>

Whitespace == {" ", "\n"}

RECURSIVE SkipWs(_)
SkipWs(text) ==
    IF text # <<>> /\ Head(text) \in Whitespace THEN SkipWs(Tail(text)) ELSE text

StartsWith(text, prefix) ==
    Len(text) >= Len(prefix) /\ SubSeq(text, 1, Len(prefix)) = prefix

Drop(text, n) == SubSeq(text, n + 1, Len(text))

Parsed(val, rest) == [ok |-> TRUE, val |-> val, rest |-> rest]
Fail == [ok |-> FALSE, val |-> Invalid, rest |-> <<>>]

DigitOf(c) == CHOOSE k \in 0..9 : Digits[k + 1] = c
IsDigit(c) == \E k \in 0..9 : Digits[k + 1] = c

RECURSIVE ParseNumber(_, _)
ParseNumber(text, acc) ==
    IF text # <<>> /\ IsDigit(Head(text))
    THEN ParseNumber(Tail(text), 10 * acc + DigitOf(Head(text)))
    ELSE Parsed(TreeOf("number", acc, <<>>, <<>>, <<>>), text)

RECURSIVE ParseString(_, _)
\* the characters up to the closing quote; the inputs hold no escapes
ParseString(text, acc) ==
    IF text = <<>> \/ Head(text) \in {"\\", "\n"} THEN Fail
    ELSE IF Head(text) = "\"" THEN Parsed(TreeOf("string", 0, acc, <<>>, <<>>), Tail(text))
    ELSE ParseString(Tail(text), Append(acc, Head(text)))

RECURSIVE ParseValue(_), ParseItems(_, _), ParseEntries(_, _, _)
ParseValue(text) ==
    LET s == SkipWs(text) IN
    IF s = <<>> THEN Fail
    ELSE CASE StartsWith(s, <<"n", "u", "l", "l">>) ->
                 Parsed(TreeOf("null", 0, <<>>, <<>>, <<>>), Drop(s, 4))
           [] StartsWith(s, <<"t", "r", "u", "e">>) ->
                 Parsed(TreeOf("true", 0, <<>>, <<>>, <<>>), Drop(s, 4))
           [] StartsWith(s, <<"f", "a", "l", "s", "e">>) ->
                 Parsed(TreeOf("false", 0, <<>>, <<>>, <<>>), Drop(s, 5))
           [] IsDigit(Head(s)) -> ParseNumber(s, 0)
           [] Head(s) = "\"" -> ParseString(Tail(s), <<>>)
           [] Head(s) = "[" ->
                 LET r == SkipWs(Tail(s)) IN
                 IF r # <<>> /\ Head(r) = "]"
                 THEN Parsed(TreeOf("array", 0, <<>>, <<>>, <<>>), Tail(r))
                 ELSE ParseItems(Tail(s), <<>>)
           [] Head(s) = "{" ->
                 LET r == SkipWs(Tail(s)) IN
                 IF r # <<>> /\ Head(r) = "}"
                 THEN Parsed(TreeOf("object", 0, <<>>, <<>>, <<>>), Tail(r))
                 ELSE ParseEntries(Tail(s), <<>>, <<>>)
           [] OTHER -> Fail

ParseItems(text, items) ==
    LET v == ParseValue(text) IN
    IF ~v.ok THEN Fail
    ELSE LET r == SkipWs(v.rest) IN
         IF r = <<>> THEN Fail
         ELSE IF Head(r) = "," THEN ParseItems(Tail(r), Append(items, v.val))
         ELSE IF Head(r) = "]"
              THEN Parsed(TreeOf("array", 0, <<>>, <<>>, Append(items, v.val)), Tail(r))
         ELSE Fail

ParseEntries(text, keys, items) ==
    LET s == SkipWs(text) IN
    IF s = <<>> \/ Head(s) # "\"" THEN Fail
    ELSE LET k == ParseString(Tail(s), <<>>) IN
         IF ~k.ok THEN Fail
         ELSE LET c == SkipWs(k.rest) IN
              IF c = <<>> \/ Head(c) # ":" THEN Fail
              ELSE LET v == ParseValue(Tail(c)) IN
                   IF ~v.ok THEN Fail
                   ELSE LET r == SkipWs(v.rest) IN
                        IF r = <<>> THEN Fail
                        ELSE IF Head(r) = ","
                             THEN ParseEntries(Tail(r), Append(keys, k.val.s),
                                               Append(items, v.val))
                        ELSE IF Head(r) = "}"
                             THEN Parsed(TreeOf("object", 0, <<>>, Append(keys, k.val.s),
                                                Append(items, v.val)), Tail(r))
                        ELSE Fail

\* JSON.parse: the value of a JSON text, Invalid for any other text
Decode(text) ==
    LET v == ParseValue(text)
    IN IF v.ok /\ SkipWs(v.rest) = <<>> THEN v.val ELSE Invalid

(***************************************************************************)
(* Observations the properties are stated with.                            *)
(***************************************************************************)
\* the consumer has seen the end-of-stream signal
EndSeen == \E i \in DOMAIN events : events[i] = "end"

\* the stream ended with the end-of-stream signal of a completed traversal
SuccessEnd == events # <<>> /\ events[1] = "end"

\* an input of primitives, arrays and objects only, with no cycle
PlainInput == ~HasDeferred(root) /\ ~HasProducer(root) /\ ~Cyclic(root)

RECURSIVE Before(_, _)
\* position p lies in an earlier sibling than position q: at the first index
\* where the two paths part, p's is the smaller
Before(p, q) ==
    /\ p # <<>>
    /\ q # <<>>
    /\ \/ Head(p) < Head(q)
       \/ Head(p) = Head(q) /\ Before(Tail(p), Tail(q))

\* the places of the error signal in what the consumer has seen
ErrorSignals == {i \in DOMAIN events : events[i] = "error"}

\* the calls of stack handlers that have not returned
HandlersRunning == {i \in DOMAIN ctl : ctl[i].op = "afterHandler"}

(***************************************************************************)
(* Properties.                                                             *)
(***************************************************************************)
\* C1: for an acyclic input of primitives, arrays and objects, whatever the
\* replacer and the indentation, the data handed to the consumer up to the
\* end-of-stream signal is a JSON text that decodes to the filtered input.
C1_RoundTrip ==
    (PlainInput /\ EndSeen) => Decode(out) = Tree(<<>>, root)

\* C2: whatever the sizes of the pulls, the chunks handed to the consumer,
\* followed by what the buffer still holds, are exactly the text push() has
\* written: no character is lost, duplicated or cut by the buffer.  Stated for
\* the inputs of primitives, arrays and objects, where every write happens
\* inside a pull of the consumer.
C2_ChunkingTransparent ==
    (PlainInput /\ error = "") => out \o buffer.bytes = written

\* C3: the data handed to the consumer between one _read call asking for n
\* bytes and the next one totals at most n bytes.
C3_AtMostRequested ==
    sincePull <= readSize

\* C4: the circular-structure error is raised only for an input in which a
\* value is met again while it is on the active traversal path; a composite
\* met again after it has been fully emitted, empty or not, raises none.
C4_SharedValueAccepted ==
    detected => Cyclic(root)

\* C5: for an input in which an object or array is reachable from itself the
\* stream does not end otherwise than with the circular-structure error, and
\* once the cycle is detected no further text is handed to the consumer.
C5_CycleEndsInError ==
    /\ [](Cyclic(root) /\ EndSeen => detected /\ error = "circular")
    /\ [][detected => out' = out]_vars

\* C6: the text of sibling entries is written in snapshot order: no text of an
\* entry is written after text of a later sibling, and while an entry's value
\* is suspended no text of a later sibling or of the closer has been written.
\* Stated for the inputs without a cycle, where each entry is met once.
C6_SiblingOrder ==
    ~Cyclic(root) =>
        /\ \A i, j \in DOMAIN wlog : i < j => ~Before(wlog[j], wlog[i])
        /\ \A k \in DOMAIN stack : \A i \in DOMAIN wlog :
              stack[k].awaiting => ~Before(stack[k].path, wlog[i])

\* C7: once abort has been called, no step changes the encoder's state
\* (abort's own callback drops the buffer) or hands data to the consumer.
C7_TerminalErrorIsFinal ==
    [][error # "" => UNCHANGED <<depth, error, processing, ended, readSize,
                                 bufferOffset, stack, visited, nextId, out>>]_vars

\* C8: the error signal is emitted at most once, the end of the stream
\* follows it at once, and no end-of-stream signal precedes it.
C8_ErrorOnce ==
    /\ Cardinality(ErrorSignals) <= 1
    /\ \A i \in ErrorSignals :
          /\ i < Len(events) /\ events[i + 1] = "end"
          /\ \A j \in 1..(i - 1) : events[j] # "end"

\* C9: no stack handler is called while another call of a stack handler has
\* not returned: the driver loop is active in one call frame at most.
C9_DriverNotReentered ==
    Cardinality(HandlersRunning) <= 1

\* C10: when the stream of an input holding deferred values has ended, the
\* total output is the output for the same input with every deferred value
\* replaced by what it resolved to.  Stated for the runs in which no write was
\* split or cut by the buffer: the output for the direct input is then its
\* text in the encoder's layout.
C10_DeferredAsDirect ==
    (HasDeferred(root) /\ ~Rejects(root) /\ ~HasProducer(root) /\ ~Cyclic(root)
        /\ clean /\ SuccessEnd)
    => out = Text(Tree(<<>>, root), 0)

\* the encoder is suspended on a deferred value that has not resolved yet:
\* nothing runs and the top frame is the placeholder of lines 291-294
SuspendedOnDeferred ==
    /\ Idle
    /\ ~ended
    /\ stack # <<>>
    /\ Top.handler = "promise"
    /\ Top.awaiting

\* C11: while the encoder is suspended on an unresolved deferred value, the
\* staging buffer holds none of the text written before it: all of it has
\* been handed to the consumer.
C11_FlushedAtSuspension ==
    SuspendedOnDeferred => (bufferOffset = 0 /\ out = written)


\* the text a producer at the root is encoded as: the array of its units for
\* a record producer (lines 379-386, 196-199), the concatenation of its text
\* for a text producer (lines 200-203)
RECURSIVE Concat(_)
Concat(chunks) ==
    IF chunks = <<>> THEN <<>> ELSE Head(chunks) \o Concat(Tail(chunks))

ProducerText(id) ==
    IF Heap[id].objectMode THEN Text(Tree(<<>>, Ref(id)), 0)
    ELSE Heap[id].avail \o Concat(Heap[id].chunks)

\* a producer is attached and the encoder, not in the error state, holds no
\* frame for it any more
Detached(sid) ==
    /\ streams[sid].listeners # <<>>
    /\ error = ""
    /\ \A i \in DOMAIN stack :
          ~(stack[i].handler \in {"processReadableObject", "processReadableString"}
            /\ stack[i].value = sid)

\* C12: a producer at the root that completes is encoded as the sequence of
\* its units, each exactly once and in order, and the producer's frame leaves
\* the stack only after the producer has completed, whatever the pull sizes
\* and the timing of the readiness notifications.
C12_ProducerUnitsInOrder ==
    /\ (root.t = "ref" /\ Heap[root.n].kind = "readable" /\ ~Rejects(root)
        /\ ~Cyclic(root) /\ SuccessEnd)
          => out = ProducerText(root.n)
    /\ \A sid \in StreamIds : Detached(sid) => streams[sid].eof


\* the encoder is suspended: nothing runs, the frame on top of the stack is
\* awaiting, no drive is in progress and the stream has not ended
Suspended ==
    /\ ctl = <<>>
    /\ stack # <<>>
    /\ Top.awaiting
    /\ ~processing
    /\ ~ended

\* the producer has handed at least one unit to the encoder: its read() of
\* line 180 returned data at least once
Yielded(sid) ==
    Len(streams[sid].avail) + Len(streams[sid].chunks)
        < Len(Heap[sid].avail) + Len(Heap[sid].chunks)

\* C13: the encoder is suspended only on the placeholder of a deferred value
\* that has not resolved, or on a producer frame whose last read returned no
\* unit after the producer had yielded at least one unit; a producer frame
\* that has never yielded a unit is never awaiting.
C13_SuspendedOnlyWhenWaiting ==
    Suspended =>
        \/ /\ Top.handler = "promise"
           /\ \E c \in conts : c.frame = Top.id
        \/ /\ Top.handler \in {"processReadableObject", "processReadableString"}
           /\ Top.firstRead
           /\ Yielded(Top.value)


(***************************************************************************)
(* Termination.  The program's own steps and the nextTick callbacks run to *)
(* completion once started (a task of the event loop is not abandoned);    *)
(* between tasks the event loop gives every pending event its turn: the    *)
(* consumer keeps pulling, every deferred value settles, every producer    *)
(* delivers its chunks and completes.  These events are enabled only       *)
(* between tasks, hence the strong fairness.                               *)
(***************************************************************************)
Fairness ==
    /\ WF_vars(Next /\ ~Idle)
    /\ SF_vars(\E size \in ReadSizes : Pull(size))
    /\ SF_vars(\E c \in conts : PromiseThen(c) \/ PromiseCatch(c))
    /\ SF_vars(\E sid \in StreamIds : StreamData(sid) \/ StreamEof(sid))

FairSpec == Spec /\ Fairness

\* the end was signalled with an empty stack, or the encoder is in the error
\* state
Terminal == (ended /\ stack = <<>>) \/ error # ""

\* the consumer has received as much as it takes in this model
Saturated == Len(out) >= MaxOut

\* C14: if the consumer keeps pulling, every deferred value settles and every
\* producer completes, the encoder eventually reaches a terminal state: the
\* end signalled with an empty stack, or the error state.
C14_Terminates == <>(Terminal \/ Saturated)


\* the producer cannot be attached: it has completed (line 371) or it is in
\* flowing mode (line 375)
Unattachable(sid) == streams[sid].endEmitted \/ Heap[sid].flowing

\* the encoder holds a frame for the producer
HasFrame(sid) ==
    \E i \in DOMAIN stack :
        /\ stack[i].handler \in {"processReadableObject", "processReadableString"}
        /\ stack[i].value = sid

\* C15: attaching a producer that has already completed or is already in
\* flowing mode puts the encoder in the error state at the attachment itself,
\* with no frame pushed for the producer, no listener subscribed to it and
\* no unit read from it.
C15_UnattachableProducerRejected ==
    [][(Running("attachReadable") /\ Unattachable(Head(ctl).val.n)) =>
          /\ error' \in {"StreamAlreadyEnded", "StreamFlowing"}
          /\ ended'
          /\ stack' = <<>>
          /\ streams' = streams
          /\ \A sid \in StreamIds : Unattachable(sid) =>
                ~HasFrame(sid) /\ streams[sid] = InitStream(sid)]_vars

\* an unattachable producer was met and the encoder is in the error state
C15_Rejected ==
    /\ error \in {"StreamAlreadyEnded", "StreamFlowing"}
    /\ root = Ref(22)
    /\ written # <<>>


(***************************************************************************)
(* The cache writers: getCache, src/lib/cache.js lines 24-44, and getData, *)
(* src/unnamed/part_000 lines 35-43.  Both pipe the stream into a file     *)
(* write stream; the stream's steps are those of Next, the pipe being its  *)
(* consumer.  getCache writes a temporary file and renames it in its       *)
(* 'finish' listener; it rejects its promise in the 'error' listeners of   *)
(* the stream and of the write stream.  getData pipes into the cache file  *)
(* itself and subscribes nothing.                                          *)
(***************************************************************************)
\* the state after .pipe(fs.createWriteStream(...)) and the on(...) calls
CacheInit ==
    /\ Constructed
    /\ via \in {"getCache", "getData"}
    /\ sink = "opening"
    /\ tmpFile = "none"
    /\ cacheFile = "none"
    /\ result = IF via = "getCache" THEN "pending" ELSE "none"
    /\ NoPrinter

\* reject(error) / resolve(value) of a promise: a settled promise stays as it is
Settle(how) == IF result = "pending" THEN how ELSE result

\* fs.createWriteStream opens its file: the file is created (or truncated).
\* It is the temporary file for getCache (cache.js line 33), the cache file
\* itself for getData (part_000 line 39)
SinkOpen ==
    /\ Idle
    /\ sink = "opening"
    /\ sink' = "open"
    /\ tmpFile' = IF via = "getCache" THEN "exists" ELSE tmpFile
    /\ cacheFile' = IF via = "getData" THEN "direct" ELSE cacheFile
    /\ UNCHANGED <<printer, root, replacer, space, via, result, encoder, ctl, sync, env, obs>>

\* the write stream reports an error: .on('error', reject), cache.js line 34;
\* nothing removes the file it wrote to
SinkError ==
    /\ Idle
    /\ sink \in {"opening", "open"}
    /\ sink' = "failed"
    /\ result' = Settle("rejected")
    /\ UNCHANGED <<printer, root, replacer, space, via, tmpFile, cacheFile, encoder, ctl,
                   sync, env, obs>>

\* the stream has emitted 'error': .on('error', reject), cache.js line 32
StreamErrorHeard ==
    /\ via = "getCache"
    /\ result = "pending"
    /\ \E i \in DOMAIN events : events[i] = "error"
    /\ result' = "rejected"
    /\ UNCHANGED <<printer, root, replacer, space, via, sink, tmpFile, cacheFile, encoder,
                   ctl, sync, env, obs>>

\* the stream has ended: the pipe ends the write stream, which emits 'finish'
\* once the file is written.  getCache's listener renames the temporary file
\* and resolves, cache.js lines 35-43; the 'error' listener of the stream has
\* run before, inside emit('error')
SinkFinish ==
    /\ Idle
    /\ sink = "open"
    /\ EndSeen
    /\ ~(via = "getCache" /\ result = "pending"
         /\ \E i \in DOMAIN events : events[i] = "error")
    /\ sink' = "finished"
    /\ tmpFile' = "none"
    /\ cacheFile' = IF via = "getCache" THEN "renamed" ELSE cacheFile
    /\ result' = IF via = "getCache" THEN Settle("resolved") ELSE result
    /\ UNCHANGED <<printer, root, replacer, space, via, encoder, ctl, sync, env, obs>>

CacheNext ==
    \/ Next
    \/ SinkOpen
    \/ SinkError
    \/ StreamErrorHeard
    \/ SinkFinish

CacheSpec == CacheInit /\ [][CacheNext]_vars

\* the stream or the file sink has reported an error
ErrorReported == sink = "failed" \/ \E i \in DOMAIN events : events[i] = "error"

\* the file sink has finished or failed: nothing more is written
SinkDone == sink \in {"failed", "finished"}

\* C16: when a cache is generated, the cache file comes to exist only by the
\* rename of the temporary file after the stream finished successfully; once
\* the stream or the file sink has reported an error the cache file is not
\* created, the temporary file is gone and the promise is rejected.
C16_CacheFileOnlyByRename ==
    /\ cacheFile # "none" => (cacheFile = "renamed" /\ SuccessEnd)
    /\ (ErrorReported /\ SinkDone) =>
          /\ cacheFile = "none"
          /\ tmpFile = "none"
          /\ (via = "getCache" => result = "rejected")


\* the handlers a frame can carry (the handler of a placeholder is noop)
StackHandlers ==
    {"root", "push", "processObject", "processArray", "processReadableObject",
     "processReadableString"}

\* C17: the handler that is called is the one of the frame on top of the
\* stack, and between two calls into the encoder the stack is empty exactly
\* when encoding is complete (the ended flag is set): it is never empty
\* while the stream has not ended, also right after a flush has interrupted
\* the drive on the last frame.
C17_StackEmptyIffEnded ==
    /\ (ctl # <<>> /\ Head(ctl).op \in StackHandlers) =>
          (stack # <<>> /\ Top.handler = Head(ctl).op)
    /\ ctl = <<>> => ((stack = <<>>) <=> ended)


\* C18: whenever a buffer exists its capacity is at least twice the size most
\* recently asked for and the write offset does not exceed the capacity; a
\* pull, also one that asks for another size and reallocates the buffer,
\* leaves the bytes already buffered at its front, in order.
C18_BufferCapacity ==
    /\ [](~buffer.isNull =>
            /\ buffer.length >= 2 * readSize
            /\ bufferOffset <= buffer.length
            /\ Len(buffer.bytes) = bufferOffset)
    /\ [][(Running("_read") /\ ~buffer.isNull /\ ~ended) =>
            /\ ~buffer'.isNull
            /\ buffer'.bytes = buffer.bytes
            /\ bufferOffset' = bufferOffset]_vars

\* a pull for a larger size has just reallocated a buffer that held bytes
C18_Reallocated ==
    /\ Running("processStack")
    /\ resizes = 1
    /\ readSize = 8
    /\ buffer.length = 16
    /\ bufferOffset > 0
    /\ buffer.bytes # <<>>


\* a is the beginning of b
IsPrefix(a, b) == Len(a) <= Len(b) /\ SubSeq(b, 1, Len(a)) = a

\* C19: a write that brings the offset to the requested size flushes exactly
\* that many bytes and keeps the bytes beyond them, in order, at the front of
\* the buffer; a write that does not reach it flushes nothing; after every
\* completed write the offset is strictly below the requested size.
C19_FlushAtRequestedSize ==
    [][(Running("write") /\ ~buffer.isNull) =>
          /\ bufferOffset' < readSize
          /\ IsPrefix(out \o buffer.bytes, out' \o buffer'.bytes)
          /\ out' # out => Len(out') = Len(out) + readSize
          /\ out' = out => Len(buffer'.bytes) < readSize]_vars


\* the frames holding the rest of a chunk that push() split
Remainders == {i \in DOMAIN stack : stack[i].remainder}

\* C20: when push() splits a chunk, the rest it pushed back as a literal
\* frame is the next text written: while that frame is on the stack no other
\* text is written, neither by a later write of the handler that was running
\* nor by a frame pushed afterwards.
C20_RemainderNext ==
    (Running("write") /\ ~buffer.isNull /\ Remainders # {}) =>
        /\ Top.remainder
        /\ Head(ctl).data = Top.data


RECURSIVE Dense(_)
\* a text without its line breaks and indentation
Dense(text) ==
    IF text = <<>> THEN <<>>
    ELSE (IF Head(text) \in {"\n", " "} THEN <<>> ELSE <<Head(text)>>)
            \o Dense(Tail(text))

\* a separator with no entry before it, no entry after it, or next to another
StrayComma(text) ==
    LET t == Dense(text) IN
    \E i \in 1..(Len(t) - 1) :
        <<t[i], t[i + 1]>> \in {<<",", ",">>, <<"{", ",">>, <<"[", ",">>,
                                <<",", "}">>, <<",", "]">>}

\* the value at the root is an object that has entries, all of them left out
AllOmitted(value) ==
    /\ value.t = "ref"
    /\ Heap[value.n].kind = "object"
    /\ Entries(value.n) # <<>>
    /\ \A i \in DOMAIN Entries(value.n) :
          Resolved(Entries(value.n)[i][1], Entries(value.n)[i][2]).t = "undefined"

\* the value at the root is an array, and the output decodes to an array
\* with one element per element of the input, null where it is left out
ElementsKept(value) ==
    LET es == Entries(value.n)
        d == Decode(out)
    IN /\ d.t = "array"
       /\ Len(d.items) = Len(es)
       /\ \A i \in DOMAIN es :
             Resolved(es[i][1], es[i][2]).t = "undefined" => d.items[i].t = "null"

\* C21: an object entry whose value is left out (undefined, a function,
\* rejected by the key filter, or a deferred value resolving to one of these)
\* gives neither key nor separator: the output has no leading, trailing or
\* doubled comma, and an object whose entries are all left out is written as
\* {} with no line break; an array element that is left out is written as
\* null and is never removed.
C21_OmittedEntries ==
    (SuccessEnd /\ ~Cyclic(root) /\ ~HasProducer(root)) =>
        /\ ~StrayComma(out)
        /\ AllOmitted(root) => out = <<"{", "}">>
        /\ (root.t = "ref" /\ Heap[root.n].kind = "array") => ElementsKept(root)


\* the frames of composite values: those popStack undoes the guard and the
\* depth for (line 433)
CompositeFrames == {i \in DOMAIN stack : stack[i].handler \in CompositeHandlers}

\* C22: whenever no code of the encoder runs and it has not aborted, the
\* cycle guard holds exactly the composite values that have a frame on the
\* stack (none once the traversal is over), and the depth counter equals the
\* number of composite frames on the stack.
C22_GuardMatchesStack ==
    (ctl = <<>> /\ error = "") =>
        /\ visited = {stack[i].value : i \in CompositeFrames}
        /\ depth = Cardinality(CompositeFrames)


(***************************************************************************)
(* The HTML chunk printer, createHtmlCompressedDataPrinter, lines 3-49.    *)
(* A byte is a number; the bytes given to push are numbered in the order   *)
(* they are given, so that a byte lost, repeated or out of place shows.    *)
(* A payload stands for the text OPEN + base64(deflate(payload)) + CLOSE   *)
(* of line 23.  A generator is consumed to its end before the next call.   *)
(***************************************************************************)
MaxChunkSize == 3
MaxChunkLen == 4
MaxPushes == 3

Zeros(n) == [i \in 1..n |-> 0]

\* the encoder's variables, fixed: the printer is exercised on its own
EncoderUnused ==
    /\ Constructed
    /\ root = Ref(1)
    /\ replacer = normalizeReplacer(NoReplacer)
    /\ space = <<>>
    /\ via = "none"
    /\ sink = "none"
    /\ tmpFile = "none"
    /\ cacheFile = "none"
    /\ result = "none"

\* lines 8-9, for the chunk sizes that are positive
PrinterInit ==
    /\ EncoderUnused
    /\ maxChunkSize \in 1..MaxChunkSize
    /\ pBuffer = Zeros(maxChunkSize)
    /\ pBufferSize = 0
    /\ chunkBuffer = <<>>
    /\ position = "idle"
    /\ yielded = <<>>
    /\ pushedBytes = <<>>
    /\ pushes = 0

\* buffer.set(chunkBuffer, bufferSize), line 12: the bytes land at the
\* offset; TypedArray.prototype.set throws when they do not fit
Fits(bytes) == pBufferSize + Len(bytes) <= Len(pBuffer)
Set(bytes) ==
    [i \in 1..Len(pBuffer) |->
        IF i > pBufferSize /\ i <= pBufferSize + Len(bytes)
        THEN bytes[i - pBufferSize] ELSE pBuffer[i]]

\* buffer.subarray(0, bufferSize) of a buffer and a size, line 17
Payload(buf, size) == SubSeq(buf, 1, size)

\* what a generator yields
Yield(by, bytes) == [by |-> by, bytes |-> bytes]

\* the loop test of line 30, with more than in place of at least
Overfills(bytes) == pBufferSize + Len(bytes) > maxChunkSize

\* the loop test of line 30
Fills(bytes) == pBufferSize + Len(bytes) >= maxChunkSize

\* push(chunk) is called, line 28
PrinterPush(n) ==
    /\ position = "idle"
    /\ pushes < MaxPushes
    /\ LET chunk == [i \in 1..n |-> Len(pushedBytes) + i] IN
       /\ chunkBuffer' = chunk
       /\ pushedBytes' = pushedBytes \o chunk
    /\ pushes' = pushes + 1
    /\ position' = "push"
    /\ UNCHANGED <<maxChunkSize, pBuffer, pBufferSize, yielded, root, replacer,
                   space, files, encoder, ctl, sync, env, obs>>

\* one turn of the loop, lines 30-37: the buffer is filled up, flushed and
\* the payload yielded
PushFlush ==
    /\ position = "push"
    /\ Fills(chunkBuffer)
    /\ LET usedChunkBufferSize == maxChunkSize - pBufferSize
           used == SubSeq(chunkBuffer, 1, usedChunkBufferSize)
       IN IF Fits(used)
          THEN /\ pBuffer' = Set(used)
               /\ yielded' = Append(yielded,
                                Yield("push", Payload(Set(used), pBufferSize + Len(used))))
               /\ pBufferSize' = 0
               /\ chunkBuffer' = SubSeq(chunkBuffer, usedChunkBufferSize + 1,
                                        Len(chunkBuffer))
               /\ UNCHANGED position
          ELSE /\ position' = "thrown"
               /\ UNCHANGED <<pBuffer, pBufferSize, chunkBuffer, yielded>>
    /\ UNCHANGED <<maxChunkSize, pushedBytes, pushes, root, replacer, space,
                   files, encoder, ctl, sync, env, obs>>

\* the loop is left, line 39: the rest of the chunk is buffered
PushReturn ==
    /\ position = "push"
    /\ ~Fills(chunkBuffer)
    /\ IF Fits(chunkBuffer)
       THEN /\ pBuffer' = Set(chunkBuffer)
            /\ pBufferSize' = pBufferSize + Len(chunkBuffer)
            /\ position' = "idle"
       ELSE /\ position' = "thrown"
            /\ UNCHANGED <<pBuffer, pBufferSize>>
    /\ chunkBuffer' = <<>>
    /\ UNCHANGED <<maxChunkSize, yielded, pushedBytes, pushes, root, replacer,
                   space, files, encoder, ctl, sync, env, obs>>

\* finish() is called, line 41
PrinterFinish ==
    /\ position = "idle"
    /\ position' = "finish"
    /\ UNCHANGED <<maxChunkSize, pBuffer, pBufferSize, chunkBuffer, yielded,
                   pushedBytes, pushes, root, replacer, space, files, encoder,
                   ctl, sync, env, obs>>

\* lines 42-44: what is buffered is flushed
FinishFlush ==
    /\ position = "finish"
    /\ IF pBufferSize > 0
       THEN /\ yielded' = Append(yielded, Yield("finish", Payload(pBuffer, pBufferSize)))
            /\ pBufferSize' = 0
       ELSE UNCHANGED <<yielded, pBufferSize>>
    /\ position' = "tail"
    /\ UNCHANGED <<maxChunkSize, pBuffer, chunkBuffer, pushedBytes, pushes, root,
                   replacer, space, files, encoder, ctl, sync, env, obs>>

\* line 46: the closing script
FinishTail ==
    /\ position = "tail"
    /\ yielded' = Append(yielded, Yield("script", <<>>))
    /\ position' = "done"
    /\ UNCHANGED <<maxChunkSize, pBuffer, pBufferSize, chunkBuffer, pushedBytes,
                   pushes, root, replacer, space, files, encoder, ctl, sync, env,
                   obs>>

PrinterNext ==
    \/ \E n \in 0..MaxChunkLen : PrinterPush(n)
    \/ PushFlush
    \/ PushReturn
    \/ PrinterFinish
    \/ FinishFlush
    \/ FinishTail

PrinterSpec == PrinterInit /\ [][PrinterNext]_vars

\* the payloads yielded so far, in order
Payloads == [i \in DOMAIN yielded |-> yielded[i].bytes]

\* C23: with every generator consumed to its end, the buffer size never
\* exceeds maxChunkSize and is strictly below it after each push; a payload
\* flushed by push holds exactly maxChunkSize bytes, the one flushed by
\* finish between 1 and maxChunkSize - 1; the payloads in the order they are
\* yielded, followed by what is buffered, are the bytes pushed so far, so
\* that after finish the payloads are exactly all chunks pushed.
C23_ChunksPreserved ==
    /\ position # "thrown"
    /\ pBufferSize <= maxChunkSize
    /\ position \in {"idle", "finish"} => pBufferSize < maxChunkSize
    /\ \A i \in DOMAIN yielded :
          /\ yielded[i].by = "push" => Len(yielded[i].bytes) = maxChunkSize
          /\ yielded[i].by = "finish" =>
                /\ Len(yielded[i].bytes) \in 1..(maxChunkSize - 1)
                /\ \A j \in DOMAIN yielded : yielded[j].by = "finish" => j = i
    /\ position \in {"idle", "finish"} =>
          Concat(Payloads) \o Payload(pBuffer, pBufferSize) = pushedBytes
    /\ position \in {"tail", "done"} => Concat(Payloads) = pushedBytes

\* finish has been consumed after pushes of which one flushed twice, and it
\* flushed a last, shorter payload
C23_Finished ==
    /\ position = "done"
    /\ maxChunkSize = 2
    /\ pushes = 2
    /\ Len(pushedBytes) = 7
    /\ \E i \in DOMAIN yielded : yielded[i].by = "finish"

=============================================================================
